---- MODULE Spec2Model ----
(***************************************************************************)
(* A model of main.py: the TIGER boundary/clip pipeline.                   *)
(*                                                                         *)
(* Strings are sequences of one-character strings, so that strip, lower,   *)
(* upper, isdigit and zfill are computed character by character.           *)
(* Geometries are sets of coordinates; a coordinate is a pair              *)
(* <<crs, cell>>, and reprojection moves every coordinate to another       *)
(* coordinate system by a shift of the cell number.                        *)
(***************************************************************************)
EXTENDS Integers, Sequences, FiniteSets, TLC

VARIABLES
    pc,        \* position of main(): "start", a step name, "done" or "failed"
    inp,       \* what main() read from the prompts (lines 243-267)
    disk,      \* downloads/<name>.zip: chunks on disk, or Absent
    net,       \* number of HTTP GETs this run issued
    err,       \* the error that ended the run, or a clip error, "none" otherwise
    boundary,  \* the value of the local variable boundary of main(), or None
    hist,      \* what this run did so far, in order
    outputs,   \* clipped/<layer>_clipped.shp as written by this run, or NoFrame
    run,       \* number of the current run of the program
    call,      \* arguments of the function under test (function specifications)
    ret        \* its result, or Pending

vars == <<pc, inp, disk, net, err, boundary, hist, outputs, run, call, ret>>

---------------------------------------------------------------------------
(* Bounds *)

\* longest string drawn as input of resolve_state_fips
MaxInputLen == 3
\* most rows of a drawn states table
MaxStates == 2
\* runs of the program over the same downloads/ folder
MaxRuns == 2

---------------------------------------------------------------------------
(* Python values *)

None == <<"None">>
\* no file at the path: os.path.exists() is false
Absent == -1
Pending == [err |-> "pending"]
NoCall == [fn |-> "none"]

UC == <<"A","B","C","D","E","F","G","H","I","J","K","L","M",
        "N","O","P","Q","R","S","T","U","V","W","X","Y","Z">>
LC == <<"a","b","c","d","e","f","g","h","i","j","k","l","m",
        "n","o","p","q","r","s","t","u","v","w","x","y","z">>
DigitChars == {"0","1","2","3","4","5","6","7","8","9"}

\* str.lower() / str.upper() on one ASCII character
lower_ch(c) ==
    IF \E i \in 1..26 : UC[i] = c THEN LC[CHOOSE i \in 1..26 : UC[i] = c] ELSE c
upper_ch(c) ==
    IF \E i \in 1..26 : LC[i] = c THEN UC[CHOOSE i \in 1..26 : LC[i] = c] ELSE c

lower(s) == [i \in 1..Len(s) |-> lower_ch(s[i])]
upper(s) == [i \in 1..Len(s) |-> upper_ch(s[i])]

\* str.strip(): leading and trailing blanks removed, inner ones kept
strip(s) ==
    LET keep == {i \in 1..Len(s) : s[i] # " "}
    IN  IF keep = {} THEN <<>>
        ELSE LET lo == CHOOSE i \in keep : \A j \in keep : i <= j
                 hi == CHOOSE i \in keep : \A j \in keep : j <= i
             IN  SubSeq(s, lo, hi)

\* str.isdigit(): non-empty and every character a digit
isdigit(s) == Len(s) > 0 /\ \A i \in 1..Len(s) : s[i] \in DigitChars

\* str.zfill(width): zeros inserted on the left, after a leading sign
RECURSIVE zfill(_, _)
zfill(s, width) ==
    IF Len(s) >= width THEN s
    ELSE IF Len(s) > 0 /\ s[1] \in {"+", "-"}
         THEN <<s[1]>> \o zfill(<<"0">> \o Tail(s), width - 1)
         ELSE zfill(<<"0">> \o s, width)

\* a or b
PyOr(a, b) == IF a # None /\ a # <<>> THEN a ELSE b

\* all strings over alphabet of length at most n
StringsUpTo(alphabet, n) == UNION {[1..k -> alphabet] : k \in 0..n}

---------------------------------------------------------------------------
(* resolve_state_fips *)

Ok(v) == [err |-> "none", val |-> v]
Raise(e) == [err |-> e, val |-> None]

\* the abbreviation is compared as typed: a slip that forgets .upper()
resolve_state_fips_cased(states_gdf, user_input) ==
    LET text == strip(user_input)
        by_name == SelectSeq(states_gdf, LAMBDA r : lower(r.NAME) = lower(text))
        by_code == SelectSeq(states_gdf, LAMBDA r : r.STUSPS = text)
    IN  IF by_name # <<>> THEN Ok(zfill(by_name[1].STATEFP, 2))
        ELSE IF by_code # <<>> THEN Ok(zfill(by_code[1].STATEFP, 2))
        ELSE Raise("ResolutionError")

resolve_state_fips(states_gdf, user_input) ==
    LET text == strip(user_input)
        by_name == SelectSeq(states_gdf, LAMBDA r : lower(r.NAME) = lower(text))
        by_code == SelectSeq(states_gdf, LAMBDA r : upper(r.STUSPS) = upper(text))
    IN  IF by_name # <<>> THEN Ok(zfill(by_name[1].STATEFP, 2))
        ELSE IF by_code # <<>> THEN Ok(zfill(by_code[1].STATEFP, 2))
        ELSE Raise("ResolutionError")

---------------------------------------------------------------------------
(* The datasets behind the URLs of LAYER_URLS and the PLACE URL.  A frame   *)
(* is [crs, rows]; a row carries its attribute columns and a geometry, the  *)
(* set of cells it covers.                                                  *)

TigerCrs == "NAD83"

StatesFrame == [crs |-> TigerCrs, rows |-> <<
    [NAME |-> <<"U","t","a","h">>, STUSPS |-> <<"U","T">>,
     STATEFP |-> <<"4","9">>, geom |-> {1, 2, 3}],
    [NAME |-> <<"O","h","i","o">>, STUSPS |-> <<"O","H">>,
     STATEFP |-> <<"3","9">>, geom |-> {4, 5, 6}] >>]

CountiesFrame == [crs |-> TigerCrs, rows |-> <<
    [GEOID |-> <<"4","9","0","3","5">>, geom |-> {1}],
    [GEOID |-> <<"4","9","0","4","9">>, geom |-> {2, 3}],
    [GEOID |-> <<"3","9","0","4","9">>, geom |-> {4, 5, 6}] >>]

RoadsFrame == [crs |-> TigerCrs, rows |-> <<
    [LINEARID |-> 1, geom |-> {1, 2}],
    [LINEARID |-> 2, geom |-> {3, 4}],
    [LINEARID |-> 3, geom |-> {6}] >>]

\* tl_2020_<fips>_place: a place may come in several rows
PlacesFrame(state_fips) ==
    IF state_fips = <<"4","9">>
    THEN [crs |-> TigerCrs, rows |-> <<
            [NAME |-> <<"P","r","o","v","o">>, STATEFP |-> <<"4","9">>, geom |-> {2}],
            [NAME |-> <<"M","o","a","b">>, STATEFP |-> <<"4","9">>, geom |-> {3}],
            [NAME |-> <<"M","o","a","b">>, STATEFP |-> <<"4","9">>, geom |-> {1}] >>]
    ELSE [crs |-> TigerCrs, rows |-> <<
            [NAME |-> <<"L","i","m","a">>, STATEFP |-> <<"3","9">>, geom |-> {4}] >>]

NoFrame == [crs |-> "none", rows |-> <<>>]

\* logical names of the archives under downloads/
PlaceName(state_fips) == <<"places_">> \o state_fips
NationalNames == {<<"states">>, <<"counties">>, <<"roads">>}
Names == NationalNames \cup
         {PlaceName(zfill(StatesFrame.rows[i].STATEFP, 2)) : i \in 1..Len(StatesFrame.rows)}

\* os.path.join(DOWNLOAD_FOLDER, f"{name}.zip")
ZipPath(name) == <<"downloads/">> \o name \o <<".zip">>

---------------------------------------------------------------------------
(* download_zip, unzip_zip, find_shapefile *)

\* chunks of 8192 bytes the remote archive is streamed in
ArchiveChunks == 2

\* what the network does with one GET: the connection fails, the status is
\* not a success, or the body delivers k chunks and then ends (k =
\* ArchiveChunks) or breaks (k < ArchiveChunks)
NetOutcomes == {<<"connect_error", 0>>, <<"http_error", 0>>} \cup
               {<<"body", k>> : k \in 0..ArchiveChunks}

\* a download that loses the exists() test of line 44
download_zip_always(d, name, outcome) ==
    IF outcome[1] = "connect_error"
    THEN [disk |-> d, gets |-> 1, err |-> "TransportError", val |-> None]
    ELSE IF outcome[1] = "http_error"
    THEN [disk |-> d, gets |-> 1, err |-> "DownloadError", val |-> None]
    ELSE [disk |-> [d EXCEPT ![name] = outcome[2]], gets |-> 1,
          err |-> IF outcome[2] < ArchiveChunks THEN "TransportError" ELSE "none",
          val |-> IF outcome[2] < ArchiveChunks THEN None ELSE ZipPath(name)]

\* d: the zip files on disk.  Returns the disk afterwards, the number of GETs
\* issued, and the path returned or the error raised.
download_zip(d, name, outcome) ==
    IF d[name] # Absent
    THEN [disk |-> d, gets |-> 0, err |-> "none", val |-> ZipPath(name)]
    ELSE IF outcome[1] = "connect_error"
    THEN [disk |-> d, gets |-> 1, err |-> "TransportError", val |-> None]
    ELSE IF outcome[1] = "http_error"
    THEN [disk |-> d, gets |-> 1, err |-> "DownloadError", val |-> None]
    ELSE \* open(local_path, "wb") creates the file before the first chunk
         [disk |-> [d EXCEPT ![name] = outcome[2]], gets |-> 1,
          err |-> IF outcome[2] < ArchiveChunks THEN "TransportError" ELSE "none",
          val |-> IF outcome[2] < ArchiveChunks THEN None ELSE ZipPath(name)]

\* file listings an extracted archive may hold: [stem, ext]
Shp == <<"s","h","p">>
Listings == { << [stem |-> "tl", ext |-> <<"d","b","f">>], [stem |-> "tl", ext |-> Shp] >>,
              << [stem |-> "tl", ext |-> <<"S","H","P">>] >>,
              << [stem |-> "tl", ext |-> <<"d","b","f">>] >> }

find_shapefile(listing) ==
    LET hits == SelectSeq(listing, LAMBDA f : lower(f.ext) = Shp)
    IN  IF hits = <<>> THEN None ELSE <<hits[1].stem, ".shp">>

\* Returns the error raised, and whether the folder was extracted.
unzip_zip(d, name, listing) ==
    IF d[name] = Absent THEN [err |-> "FileNotFoundError", extracted |-> FALSE]
    ELSE IF d[name] < ArchiveChunks THEN [err |-> "BadZipFile", extracted |-> FALSE]
    ELSE IF find_shapefile(listing) = None THEN [err |-> "NotFoundError", extracted |-> TRUE]
    ELSE [err |-> "none", extracted |-> TRUE]

---------------------------------------------------------------------------
(* build_boundary, build_city_boundary *)

Ev(e, what) == [ev |-> e, what |-> what]

\* a dissolve that is left out: the filtered rows are returned as they are
dissolve_skipped(frame) == frame

\* GeoDataFrame.dissolve().reset_index(drop=True): one row, the union of the
\* geometries, the other columns from the first row
dissolve(frame) ==
    [crs |-> frame.crs,
     rows |-> << [frame.rows[1] EXCEPT
                    !.geom = UNION {frame.rows[i].geom : i \in 1..Len(frame.rows)}] >>]

Filter(frame, Test(_)) == [crs |-> frame.crs, rows |-> SelectSeq(frame.rows, Test)]

\* a validation that checks the length of the county code only
build_boundary_len_only(boundary_type, boundary_value, states_frame, counties_frame) ==
    LET btype == strip(lower(boundary_type))
    IN  IF boundary_value = None
        THEN [err |-> "AttributeError", val |-> NoFrame, evs |-> <<>>]
        ELSE
        LET value == strip(boundary_value)
        IN  IF btype = <<"s","t","a","t","e">>
            THEN LET r == resolve_state_fips(states_frame.rows, value)
                     b == Filter(states_frame, LAMBDA row : row.STATEFP = r.val)
                     rd == <<Ev("read", "states")>>
                 IN  IF r.err # "none"
                     THEN [err |-> r.err, val |-> NoFrame, evs |-> rd]
                     ELSE IF b.rows = <<>>
                     THEN [err |-> "EmptyResultError", val |-> NoFrame,
                           evs |-> rd \o <<Ev("filter", "states")>>]
                     ELSE [err |-> "none", val |-> dissolve(b),
                           evs |-> rd \o <<Ev("filter", "states")>>]
            ELSE IF btype = <<"f","i","p","s">>
            THEN IF Len(value) # 5
                 THEN [err |-> "ValidationError", val |-> NoFrame, evs |-> <<>>]
                 ELSE LET subset == Filter(counties_frame, LAMBDA row : row.GEOID = value)
                          evs == <<Ev("read", "counties"), Ev("filter", "counties")>>
                      IN  IF subset.rows = <<>>
                          THEN [err |-> "EmptyResultError", val |-> NoFrame, evs |-> evs]
                          ELSE [err |-> "none", val |-> dissolve(subset), evs |-> evs]
            ELSE [err |-> "ValidationError", val |-> NoFrame, evs |-> <<>>]

\* Returns [err, val, evs]: the boundary or the error, and the dataset
\* operations performed.
build_boundary(boundary_type, boundary_value, states_frame, counties_frame) ==
    LET btype == strip(lower(boundary_type))
    IN  IF boundary_value = None
        THEN [err |-> "AttributeError", val |-> NoFrame, evs |-> <<>>]
        ELSE
        LET value == strip(boundary_value)
        IN  IF btype = <<"s","t","a","t","e">>
            THEN LET r == resolve_state_fips(states_frame.rows, value)
                     b == Filter(states_frame, LAMBDA row : row.STATEFP = r.val)
                     rd == <<Ev("read", "states")>>
                 IN  IF r.err # "none"
                     THEN [err |-> r.err, val |-> NoFrame, evs |-> rd]
                     ELSE IF b.rows = <<>>
                     THEN [err |-> "EmptyResultError", val |-> NoFrame,
                           evs |-> rd \o <<Ev("filter", "states")>>]
                     ELSE [err |-> "none", val |-> dissolve(b),
                           evs |-> rd \o <<Ev("filter", "states")>>]
            ELSE IF btype = <<"f","i","p","s">>
            THEN IF Len(value) # 5 \/ ~isdigit(value)
                 THEN [err |-> "ValidationError", val |-> NoFrame, evs |-> <<>>]
                 ELSE LET subset == Filter(counties_frame, LAMBDA row : row.GEOID = value)
                          evs == <<Ev("read", "counties"), Ev("filter", "counties")>>
                      IN  IF subset.rows = <<>>
                          THEN [err |-> "EmptyResultError", val |-> NoFrame, evs |-> evs]
                          ELSE [err |-> "none", val |-> dissolve(subset), evs |-> evs]
            ELSE [err |-> "ValidationError", val |-> NoFrame, evs |-> <<>>]

\* Returns [err, val, evs, disk, gets].
build_city_boundary(city_name, state_input, states_frame, d, outcome, listing) ==
    LET r == resolve_state_fips(states_frame.rows, state_input)
        rd == <<Ev("read", "states")>>
    IN  IF r.err # "none"
        THEN [err |-> r.err, val |-> NoFrame, evs |-> rd,
              disk |-> d, gets |-> 0]
        ELSE
        LET place_name == PlaceName(r.val)
            dl == download_zip(d, place_name, outcome)
            uz == unzip_zip(dl.disk, place_name, listing)
            places == PlacesFrame(r.val)
            subset == Filter(places, LAMBDA row :
                          lower(row.NAME) = lower(strip(city_name))
                          /\ row.STATEFP = r.val)
            ev1 == rd \o <<[ev |-> "fetch", what |-> "places", val |-> dl.val]>>
            ev2 == ev1 \o <<Ev("extract", "places")>>
            ev3 == ev2 \o <<Ev("read", "places"), Ev("filter", "places")>>
        IN  IF dl.err # "none"
            THEN [err |-> dl.err, val |-> NoFrame, evs |-> ev1,
                  disk |-> dl.disk, gets |-> dl.gets]
            ELSE IF uz.err # "none"
            THEN [err |-> uz.err, val |-> NoFrame, evs |-> ev2, disk |-> dl.disk,
                  gets |-> dl.gets]
            ELSE IF subset.rows = <<>>
            THEN [err |-> "EmptyResultError", val |-> NoFrame, evs |-> ev3,
                  disk |-> dl.disk, gets |-> dl.gets]
            ELSE [err |-> "none", val |-> dissolve(subset), evs |-> ev3,
                  disk |-> dl.disk, gets |-> dl.gets]

---------------------------------------------------------------------------
(* clip_layer_to_boundary *)

\* coordinate systems: the same place has cell number c + CrsOffset in each
CrsOffset(crs) == IF crs = "NAD83" THEN 0 ELSE 100

\* GeoDataFrame.to_crs(crs): a new frame, every coordinate transformed
to_crs(frame, crs) ==
    [crs |-> crs,
     rows |-> [i \in 1..Len(frame.rows) |->
                 [frame.rows[i] EXCEPT
                    !.geom = {c - CrsOffset(frame.crs) + CrsOffset(crs) : c \in @}]]]

\* geopandas.clip(gdf, mask): the rows of gdf that meet the union of the
\* mask's geometries, each cut to it; coordinates are compared as they are
gpd_clip(gdf, mask) ==
    LET m == UNION {mask.rows[i].geom : i \in 1..Len(mask.rows)}
        cut == [i \in 1..Len(gdf.rows) |->
                  [gdf.rows[i] EXCEPT !.geom = @ \cap m]]
    IN  [crs |-> gdf.crs, rows |-> SelectSeq(cut, LAMBDA row : row.geom # {})]

\* what can go wrong in one clip attempt
ClipFaults == {"none", "load", "reproject", "intersect", "write"}

\* the layer is aligned to the boundary instead of the boundary to the layer
clip_layer_reprojecting_base(base, boundary_gdf, fault) ==
    LET differ == base.crs # boundary_gdf.crs
        layer == IF differ THEN to_crs(base, boundary_gdf.crs) ELSE base
    IN  IF fault \in {"load", "intersect", "write"} \/ (fault = "reproject" /\ differ)
        THEN [err |-> fault, written |-> NoFrame, mask |-> boundary_gdf,
              caller |-> boundary_gdf, reprojected |-> <<>>]
        ELSE [err |-> "none", written |-> gpd_clip(layer, boundary_gdf),
              mask |-> boundary_gdf, caller |-> boundary_gdf,
              reprojected |-> IF differ THEN <<"base">> ELSE <<>>]

\* the boundary is reprojected in place, to a fixed system, before the clip
clip_layer_in_place(base, boundary_gdf, fault) ==
    LET moved == to_crs(boundary_gdf, "WGS84")
        mask == IF base.crs # moved.crs THEN to_crs(moved, base.crs) ELSE moved
    IN  IF fault \in {"load", "intersect", "write"}
        THEN [err |-> fault, written |-> NoFrame, mask |-> mask,
              caller |-> moved, reprojected |-> <<"boundary">>]
        ELSE [err |-> "none", written |-> gpd_clip(base, mask), mask |-> mask,
              caller |-> moved, reprojected |-> <<"boundary">>]

\* Returns [err, written, mask, caller, reprojected]: the error raised (the
\* fault's name) or "none", the frame written to output_path, the mask used,
\* the caller's boundary object after the call, and the frames that were
\* reprojected.
clip_layer_to_boundary(base, boundary_gdf, fault) ==
    LET differ == base.crs # boundary_gdf.crs
        mask == IF differ THEN to_crs(boundary_gdf, base.crs) ELSE boundary_gdf
    IN  IF fault = "load"
        THEN [err |-> fault, written |-> NoFrame, mask |-> boundary_gdf,
              caller |-> boundary_gdf, reprojected |-> <<>>]
        ELSE IF fault = "reproject" /\ differ
        THEN [err |-> fault, written |-> NoFrame, mask |-> boundary_gdf,
              caller |-> boundary_gdf, reprojected |-> <<>>]
        ELSE IF fault \in {"intersect", "write"}
        THEN [err |-> fault, written |-> NoFrame, mask |-> mask,
              caller |-> boundary_gdf,
              reprojected |-> IF differ THEN <<"boundary copy">> ELSE <<>>]
        ELSE [err |-> "none", written |-> gpd_clip(base, mask), mask |-> mask,
              caller |-> boundary_gdf,
              reprojected |-> IF differ THEN <<"boundary copy">> ELSE <<>>]

---------------------------------------------------------------------------
(* What the operator may type at the prompts of main() *)

StateRows == {StatesFrame.rows[i] : i \in 1..Len(StatesFrame.rows)}

RecognizedStateInputs ==
    UNION {{r.NAME, lower(r.NAME), r.STUSPS, lower(r.STUSPS),
            <<" ">> \o r.STUSPS \o <<" ">>} : r \in StateRows}

UnrecognizedStateInputs ==
    { <<>>, <<" ">>, <<"U","t","a">>, <<"U","t","a","h","h">>, <<"U"," ","T">>,
      <<"Z","Z">>, <<"4","9">> }

StateInputs == RecognizedStateInputs \cup UnrecognizedStateInputs

CityInputs ==
    { <<"M","o","a","b">>, <<" ","p","r","o","v","o">>, <<"L","i","m","a">> }

FipsInputs ==
    { <<"4","9","0","3","5">>, <<" ","4","9","0","4","9"," ">>, <<"3","9","0","4","9">>,
      <<"0","0","0","0","0">>, <<"4","9","0","3">>, <<"4","9","0","3","5","5">>,
      <<"4","9","0","3","a">>, <<"4","9"," ","3","5">>, <<"+","4","9","0","3">>, <<>> }

StateChoices == { <<"1">>, <<"s","t","a","t","e">>, <<" ","S","t","a","t","e">> }
CityChoices == { <<"2">>, <<"c","i","t","y">> }
FipsChoices == { <<"3">>, <<"F","I","P","S">> }
OtherChoices == { <<>>, <<"4">>, <<"c","o","u","n","t","y">> }

\* one run's answers: the choice, then the values the chosen branch asks for
Entries ==
    {<<ch, a, <<>>>> : ch \in StateChoices, a \in StateInputs}
    \cup {<<ch, c, a>> : ch \in CityChoices, c \in CityInputs, a \in StateInputs}
    \cup {<<ch, f, <<>>>> : ch \in FipsChoices, f \in FipsInputs}
    \cup {<<ch, <<>>, <<>>>> : ch \in OtherChoices}

NoInput == [boundary_type |-> None, state_input |-> None, city_name |-> None,
            city_state |-> None, fips_value |-> None, city_mode |-> FALSE,
            typed |-> None]

---------------------------------------------------------------------------
(* main() *)

DlSteps == {"dl_states", "dl_counties", "dl_roads"}
UzSteps == {"uz_states", "uz_counties", "uz_roads"}
ClipSteps == {"clip_roads", "clip_counties"}

LayerOf(step) ==
    CASE step \in {"dl_states", "uz_states"} -> "states"
      [] step \in {"dl_counties", "uz_counties", "clip_counties"} -> "counties"
      [] OTHER -> "roads"

After(step) ==
    CASE step = "dl_states" -> "uz_states"
      [] step = "uz_states" -> "dl_counties"
      [] step = "dl_counties" -> "uz_counties"
      [] step = "uz_counties" -> "dl_roads"
      [] step = "dl_roads" -> "uz_roads"
      [] step = "uz_roads" -> "build"
      [] step = "build" -> "clip_roads"
      [] step = "clip_roads" -> "clip_counties"
      [] OTHER -> "done"

Init ==
    /\ pc = "start"
    /\ inp = NoInput
    /\ disk = [n \in Names |-> Absent]
    /\ net = 0
    /\ err = "none"
    /\ boundary = NoFrame
    /\ hist = <<>>
    /\ outputs = [l \in {"roads", "counties"} |-> NoFrame]
    /\ run = 1
    /\ call = NoCall
    /\ ret = Pending

\* lines 243-267: the prompts
read_inputs(e) ==
    LET choice == lower(strip(e[1]))
    IN  IF choice \in {<<"1">>, <<"s","t","a","t","e">>}
        THEN [NoInput EXCEPT !.boundary_type = <<"s","t","a","t","e">>,
                             !.state_input = strip(e[2]), !.typed = e[2]]
        ELSE IF choice \in {<<"2">>, <<"c","i","t","y">>}
        THEN [NoInput EXCEPT !.boundary_type = <<"c","i","t","y">>,
                             !.city_name = strip(e[2]), !.city_state = strip(e[3]),
                             !.city_mode = TRUE, !.typed = e[3]]
        ELSE IF choice \in {<<"3">>, <<"f","i","p","s">>}
        THEN [NoInput EXCEPT !.boundary_type = <<"f","i","p","s">>,
                             !.fips_value = strip(e[2]), !.typed = e[2]]
        ELSE NoInput

Start ==
    /\ pc = "start"
    /\ \E e \in Entries :
         /\ inp' = read_inputs(e)
         /\ pc' = IF inp'.boundary_type = None THEN "failed" ELSE "dl_states"
         /\ err' = IF inp'.boundary_type = None THEN "ValidationError" ELSE "none"
    /\ UNCHANGED <<disk, net, boundary, hist, outputs, run, call, ret>>

\* lines 271, 274, 277
Download ==
    /\ pc \in DlSteps
    /\ \E outcome \in NetOutcomes :
         LET r == download_zip(disk, <<LayerOf(pc)>>, outcome)
         IN  /\ disk' = r.disk
             /\ net' = net + r.gets
             /\ hist' = Append(hist, [ev |-> "fetch", what |-> LayerOf(pc), val |-> r.val])
             /\ pc' = IF r.err = "none" THEN After(pc) ELSE "failed"
             /\ err' = r.err
    /\ UNCHANGED <<inp, boundary, outputs, run, call, ret>>

\* lines 272, 275, 278
Unzip ==
    /\ pc \in UzSteps
    /\ \E listing \in Listings :
         LET r == unzip_zip(disk, <<LayerOf(pc)>>, listing)
         IN  /\ hist' = Append(hist, Ev("extract", LayerOf(pc)))
             /\ pc' = IF r.err = "none" THEN After(pc) ELSE "failed"
             /\ err' = r.err
    /\ UNCHANGED <<inp, disk, net, boundary, outputs, run, call, ret>>

\* a failed boundary construction is reported and the run goes on
BuildLenient ==
    /\ pc = "build"
    /\ ~inp.city_mode
    /\ LET r == build_boundary(inp.boundary_type, PyOr(inp.state_input, inp.fips_value),
                               StatesFrame, CountiesFrame)
       IN  /\ boundary' = r.val
           /\ hist' = hist \o <<Ev("build", inp.boundary_type)>> \o r.evs \o
                      (IF r.err = "none"
                       THEN <<[ev |-> "built", what |-> inp.boundary_type, val |-> r.val]>>
                       ELSE <<>>)
           /\ pc' = After(pc)
           /\ err' = "none"
    /\ UNCHANGED <<inp, disk, net, outputs, run, call, ret>>

\* line 284
Build ==
    /\ pc = "build"
    /\ ~inp.city_mode
    /\ LET r == build_boundary(inp.boundary_type, PyOr(inp.state_input, inp.fips_value),
                               StatesFrame, CountiesFrame)
       IN  /\ boundary' = r.val
           /\ hist' = hist \o <<Ev("build", inp.boundary_type)>> \o r.evs \o
                      (IF r.err = "none"
                       THEN <<[ev |-> "built", what |-> inp.boundary_type, val |-> r.val]>>
                       ELSE <<>>)
           /\ pc' = IF r.err = "none" THEN After(pc) ELSE "failed"
           /\ err' = r.err
    /\ UNCHANGED <<inp, disk, net, outputs, run, call, ret>>

\* line 282
BuildCity ==
    /\ pc = "build"
    /\ inp.city_mode
    /\ \E outcome \in NetOutcomes, listing \in Listings :
         LET r == build_city_boundary(inp.city_name, inp.city_state, StatesFrame,
                                      disk, outcome, listing)
         IN  /\ boundary' = r.val
             /\ disk' = r.disk
             /\ net' = net + r.gets
             /\ hist' = hist \o <<Ev("build", inp.boundary_type)>> \o r.evs \o
                        (IF r.err = "none"
                         THEN <<[ev |-> "built", what |-> inp.boundary_type, val |-> r.val]>>
                         ELSE <<>>)
             /\ pc' = IF r.err = "none" THEN After(pc) ELSE "failed"
             /\ err' = r.err
    /\ UNCHANGED <<inp, outputs, run, call, ret>>

LayerFrame(layer) == IF layer = "roads" THEN RoadsFrame ELSE CountiesFrame

\* both attempts in one try block: the first error ends the run
ClipFatal ==
    /\ pc \in ClipSteps
    /\ \E fault \in ClipFaults :
         LET r == clip_layer_to_boundary(LayerFrame(LayerOf(pc)), boundary, fault)
         IN  /\ outputs' = IF r.err = "none"
                           THEN [outputs EXCEPT ![LayerOf(pc)] = r.written]
                           ELSE outputs
             /\ boundary' = r.caller
             /\ hist' = Append(hist, [ev |-> "clip", what |-> LayerOf(pc),
                                      mask |-> boundary, err |-> r.err])
             /\ pc' = IF r.err = "none" THEN After(pc) ELSE "failed"
             /\ err' = r.err
    /\ UNCHANGED <<inp, disk, net, run, call, ret>>

\* lines 288-296: each attempt in its own try/except Exception
Clip ==
    /\ pc \in ClipSteps
    /\ \E fault \in ClipFaults :
         LET r == clip_layer_to_boundary(LayerFrame(LayerOf(pc)), boundary, fault)
         IN  /\ outputs' = IF r.err = "none"
                           THEN [outputs EXCEPT ![LayerOf(pc)] = r.written]
                           ELSE outputs
             /\ boundary' = r.caller
             /\ hist' = Append(hist, [ev |-> "clip", what |-> LayerOf(pc),
                                      mask |-> boundary, err |-> r.err])
             /\ pc' = After(pc)
    /\ UNCHANGED <<inp, disk, net, err, run, call, ret>>

\* the program is started again; downloads/ is as the last run left it
Restart ==
    /\ pc \in {"done", "failed"}
    /\ run < MaxRuns
    /\ run' = run + 1
    /\ pc' = "start"
    /\ inp' = NoInput
    /\ net' = 0
    /\ err' = "none"
    /\ boundary' = NoFrame
    /\ hist' = <<>>
    /\ outputs' = [l \in {"roads", "counties"} |-> NoFrame]
    /\ UNCHANGED <<disk, call, ret>>

Next == Start \/ Download \/ Unzip \/ Build \/ BuildCity \/ Clip \/ Restart

Spec == Init /\ [][Next]_vars

---------------------------------------------------------------------------
(* resolve_state_fips on its own: a states table and an input are drawn,   *)
(* then the function is applied.                                           *)

ResolveAlphabet == {"a", "A", "b", "B", " "}
ResolveInputs == StringsUpTo(ResolveAlphabet, MaxInputLen)

\* rows a states table may hold; STATEFP is a text column of 1 or 2 digits
ResolveRows ==
    { [NAME |-> <<"A","b","a">>, STUSPS |-> <<"A","B">>, STATEFP |-> <<"7">>],
      [NAME |-> <<"B","a","b">>, STUSPS |-> <<"b","a">>, STATEFP |-> <<"1","2">>],
      [NAME |-> <<"a","b","b">>, STUSPS |-> <<"B","b">>, STATEFP |-> <<"0","7">>],
      [NAME |-> <<"B","A","A">>, STUSPS |-> <<"a","a">>, STATEFP |-> <<"3">>] }

\* names and abbreviations are keys of the TIGER states table
KeysUnique(t) ==
    \A i, j \in 1..Len(t) :
        i # j => lower(t[i].NAME) # lower(t[j].NAME)
                 /\ upper(t[i].STUSPS) # upper(t[j].STUSPS)

ResolveTables ==
    {t \in UNION {[1..k -> ResolveRows] : k \in 1..MaxStates} : KeysUnique(t)}

InitResolve ==
    /\ pc = "start" /\ inp = NoInput /\ disk = [n \in Names |-> Absent]
    /\ net = 0 /\ err = "none" /\ boundary = NoFrame /\ hist = <<>>
    /\ outputs = [l \in {"roads", "counties"} |-> NoFrame] /\ run = 1
    /\ call \in [fn : {"resolve_state_fips"}, states_gdf : ResolveTables,
                 user_input : ResolveInputs]
    /\ ret = Pending

Resolve ==
    /\ call.fn = "resolve_state_fips"
    /\ ret = Pending
    /\ ret' = resolve_state_fips(call.states_gdf, call.user_input)
    /\ UNCHANGED <<pc, inp, disk, net, err, boundary, hist, outputs, run, call>>

SpecResolve == InitResolve /\ [][Resolve]_vars

---------------------------------------------------------------------------
(* clip_layer_to_boundary on its own: a layer, a boundary and a fault are   *)
(* drawn, then the function is applied.                                     *)

\* cells of the world the drawn layers lie in
MaxCell == 2
\* most rows of a drawn layer
MaxLayerRows == 2

CrsSet == {"NAD83", "WGS84"}
Shapes == (SUBSET (1..MaxCell)) \ {{}}

\* a frame in coordinate system crs whose rows cover the given cells of the world
FrameOf(crs, shapes) ==
    [crs |-> crs,
     rows |-> [i \in 1..Len(shapes) |->
                 [LINEARID |-> i, geom |-> {c + CrsOffset(crs) : c \in shapes[i]}]]]

ClipLayers ==
    {FrameOf(crs, sh) : crs \in CrsSet,
                        sh \in UNION {[1..k -> Shapes] : k \in 0..MaxLayerRows}}
\* a boundary is a dissolved frame: one row
ClipBoundaries == {FrameOf(crs, <<sh>>) : crs \in CrsSet, sh \in Shapes}

InitClip ==
    /\ pc = "start" /\ inp = NoInput /\ disk = [n \in Names |-> Absent]
    /\ net = 0 /\ err = "none" /\ boundary = NoFrame /\ hist = <<>>
    /\ outputs = [l \in {"roads", "counties"} |-> NoFrame] /\ run = 1
    /\ call \in [fn : {"clip_layer_to_boundary"}, base : ClipLayers,
                 boundary_gdf : ClipBoundaries, fault : ClipFaults]
    /\ ret = Pending

ClipCall ==
    /\ call.fn = "clip_layer_to_boundary"
    /\ ret = Pending
    /\ ret' = clip_layer_to_boundary(call.base, call.boundary_gdf, call.fault)
    /\ UNCHANGED <<pc, inp, disk, net, err, boundary, hist, outputs, run, call>>

SpecClip == InitClip /\ [][ClipCall]_vars

---------------------------------------------------------------------------
(* Vocabulary of the properties *)

\* s and t are the same text up to the letter case of each character
SameIgnoringCase(s, t) ==
    /\ Len(s) = Len(t)
    /\ \A i \in 1..Len(s) :
          \/ s[i] = t[i]
          \/ \E k \in 1..26 : {s[i], t[i]} = {LC[k], UC[k]}

\* a code written with 2 digits
PadTwo(code) == IF Len(code) = 1 THEN <<"0", code[1]>> ELSE code

IsFiveDigits(s) == Len(s) = 5 /\ \A i \in 1..5 : s[i] \in DigitChars

HistOf(e) == {i \in 1..Len(hist) : hist[i].ev = e}
BuildRan == HistOf("build") # {}
StateKind == inp.boundary_type = <<"s","t","a","t","e">>
CityKind == inp.boundary_type = <<"c","i","t","y">>
FipsKind == inp.boundary_type = <<"f","i","p","s">>
Ended == pc \in {"done", "failed"}

\* the state identifier of the run, as main() holds it
StateIdentifier == IF inp.city_mode THEN inp.city_state ELSE inp.state_input

RowsNamed(s) ==
    {r \in StateRows : SameIgnoringCase(s, r.NAME) \/ SameIgnoringCase(s, r.STUSPS)}

\* the region records the run's boundary specification selects
Matching ==
    IF StateKind THEN RowsNamed(inp.state_input)
    ELSE IF FipsKind
    THEN {CountiesFrame.rows[i] : i \in {j \in 1..Len(CountiesFrame.rows) :
                                           CountiesFrame.rows[j].GEOID = inp.fips_value}}
    ELSE UNION { {PlacesFrame(st.STATEFP).rows[i] :
                    i \in {j \in 1..Len(PlacesFrame(st.STATEFP).rows) :
                             SameIgnoringCase(inp.city_name,
                                              PlacesFrame(st.STATEFP).rows[j].NAME)}} :
                 st \in RowsNamed(inp.city_state) }

\* the place archive the city variant asks for, when its state resolves
PlaceArchive ==
    LET r == resolve_state_fips(StatesFrame.rows, inp.city_state)
    IN  IF r.err = "none" THEN PlaceName(r.val) ELSE <<"states">>
CityFetches ==
    pc = "build" /\ inp.city_mode
    /\ resolve_state_fips(StatesFrame.rows, inp.city_state).err = "none"

---------------------------------------------------------------------------
(* Properties *)

\* C1: a download_zip call made while downloads/<name>.zip exists issues no
\* GET, leaves the files as they are and returns the existing path; only a
\* call made while the file is absent issues a GET.
FetchOfExistingFileIsFree ==
    [][ /\ (pc \in DlSteps /\ disk[<<LayerOf(pc)>>] # Absent)
           => /\ net' = net
              /\ disk' = disk
              /\ pc' = After(pc)
              /\ hist'[Len(hist')] = [ev |-> "fetch", what |-> LayerOf(pc),
                                      val |-> ZipPath(<<LayerOf(pc)>>)]
        /\ (CityFetches /\ disk[PlaceArchive] # Absent)
           => /\ net' = net
              /\ disk' = disk
              /\ \E i \in 1..Len(hist') :
                    hist'[i] = [ev |-> "fetch", what |-> "places",
                                val |-> ZipPath(PlaceArchive)]
        /\ net' > net
           => /\ net' = net + 1
              /\ \/ pc \in DlSteps /\ disk[<<LayerOf(pc)>>] = Absent
                 \/ CityFetches /\ disk[PlaceArchive] = Absent
      ]_vars

\* a later run finds states.zip complete on disk and fetches it without a GET
FetchSkippedWitness ==
    /\ run = 2
    /\ pc = "uz_states"
    /\ net = 0
    /\ disk[<<"states">>] = ArchiveChunks

\* C2 (as claimed): once boundary construction has run for the state or the
\* city kind with a state identifier that names no state, the run has failed
\* with the ResolutionError.
UnrecognizedStateRaisesResolutionError ==
    ((StateKind \/ CityKind) /\ BuildRan /\ RowsNamed(StateIdentifier) = {})
        => (pc = "failed" /\ err = "ResolutionError")

\* C3 (as claimed): in a fips run whose county code is not 5 digits no
\* dataset is fetched, extracted, read or filtered, and the run ends with
\* the ValidationError.
MalformedFipsFailsBeforeAnyDataset ==
    (FipsKind /\ ~IsFiveDigits(inp.typed))
        => /\ \A i \in 1..Len(hist) :
                 hist[i].ev \notin {"fetch", "extract", "read", "filter"}
           /\ Ended => (pc = "failed" /\ err = "ValidationError")

\* C3 (amended): in a fips run whose county code, surrounding blanks
\* removed, is not 5 digits, no dataset is read or filtered, no boundary is
\* built and no clip is attempted; boundary construction, reached after the
\* three national archives were fetched and extracted, fails with the
\* ValidationError.
MalformedFipsNeverQueried ==
    (FipsKind /\ ~IsFiveDigits(strip(inp.typed)))
        => /\ HistOf("read") = {} /\ HistOf("filter") = {}
           /\ HistOf("built") = {} /\ HistOf("clip") = {}
           /\ boundary = NoFrame
           /\ pc \notin ClipSteps \cup {"done"}
           /\ BuildRan => (pc = "failed" /\ err = "ValidationError")
           /\ (pc = "failed" /\ err = "ValidationError")
                 => /\ BuildRan
                    /\ Cardinality(HistOf("fetch")) = 3
                    /\ Cardinality(HistOf("extract")) = 3
                    /\ \A i \in HistOf("fetch") \cup HistOf("extract") :
                          \A b \in HistOf("build") : i < b

MalformedFipsWitness ==
    /\ FipsKind
    /\ inp.typed = <<"4","9","0","3","a">>
    /\ pc = "failed"
    /\ err = "ValidationError"
    /\ BuildRan

\* C4: a clip attempt that fails never fails the run: the roads attempt is
\* followed by the counties attempt with the same boundary, and the
\* counties attempt by the normal end of the run.
ClipFailureIsNotFatal ==
    /\ HistOf("clip") # {} => (err = "none" /\ pc \in {"clip_counties", "done"})
    /\ pc = "clip_counties"
          => /\ hist[Len(hist)].ev = "clip"
             /\ hist[Len(hist)].what = "roads"
    /\ pc = "done"
          => /\ Len(hist) >= 2
             /\ hist[Len(hist) - 1].ev = "clip" /\ hist[Len(hist) - 1].what = "roads"
             /\ hist[Len(hist)].ev = "clip" /\ hist[Len(hist)].what = "counties"
             /\ hist[Len(hist)].mask = hist[Len(hist) - 1].mask
             /\ hist[Len(hist)].mask = boundary
             /\ \A l \in {"roads", "counties"} :
                   (outputs[l] = NoFrame) <=>
                   (\E i \in HistOf("clip") : hist[i].what = l /\ hist[i].err # "none")

RoadsFailedCountiesClippedWitness ==
    /\ pc = "done"
    /\ hist[Len(hist) - 1].err = "write"
    /\ hist[Len(hist)].err = "none"
    /\ outputs["roads"] = NoFrame
    /\ outputs["counties"] # NoFrame

\* C5: a clip attempt starts, and a clipped file is written, only in a run
\* whose boundary was built; a run with an invalid choice or a failed
\* boundary construction is aborted with no clip attempt and no output.
NoClipWithoutBoundary ==
    /\ (pc \in ClipSteps \cup {"done"} \/ HistOf("clip") # {}
        \/ \E l \in {"roads", "counties"} : outputs[l] # NoFrame)
          => /\ inp.boundary_type # None
             /\ boundary # NoFrame
             /\ err = "none"
             /\ HistOf("built") # {}
             /\ \A b \in HistOf("built") : \A c \in HistOf("clip") : b < c
    /\ pc = "failed"
          => /\ err # "none"
             /\ HistOf("clip") = {}
             /\ \A l \in {"roads", "counties"} : outputs[l] = NoFrame
    /\ (inp.boundary_type = None /\ pc # "start")
          => (pc = "failed" /\ err = "ValidationError" /\ hist = <<>>)
    /\ (BuildRan /\ HistOf("built") = {}) => pc = "failed"

AbortedBeforeClipWitness ==
    /\ pc = "failed"
    /\ BuildRan
    /\ err = "EmptyResultError"
    /\ CityKind

\* C6: resolve_state_fips, given a state's full name or its postal
\* abbreviation in any letter case, returns that state's code written with
\* 2 digits.
ResolveNameAndAbbreviationAgree ==
    (call.fn = "resolve_state_fips" /\ ret # Pending)
        => \A i \in 1..Len(call.states_gdf) :
              (\/ SameIgnoringCase(call.user_input, call.states_gdf[i].NAME)
               \/ SameIgnoringCase(call.user_input, call.states_gdf[i].STUSPS))
                 => ret = Ok(PadTwo(call.states_gdf[i].STATEFP))

\* the second row's abbreviation, typed in another case, resolves to its padded code
ResolveByAbbreviationWitness ==
    /\ call.fn = "resolve_state_fips"
    /\ ret # Pending
    /\ Len(call.states_gdf) = 2
    /\ SameIgnoringCase(call.user_input, call.states_gdf[2].STUSPS)
    /\ call.user_input # call.states_gdf[2].STUSPS
    /\ Len(call.states_gdf[2].STATEFP) = 1
    /\ ret.err = "none"

\* C7 (as claimed): every run that has ended built exactly one Boundary.
ExactlyOneBoundaryEveryRun ==
    Ended => Cardinality(HistOf("built")) = 1

\* C7 (amended): no run builds more than one Boundary; a run builds exactly
\* one exactly when it gets as far as clipping, by the variant of the kind
\* entered and before the first clip attempt; both clip attempts receive
\* that Boundary, which stays as it was built.
OneBoundaryPerClippingRun ==
    /\ Cardinality(HistOf("built")) <= 1
    /\ (pc \in ClipSteps \cup {"done"}) <=> (Cardinality(HistOf("built")) = 1)
    /\ HistOf("clip") # {} => HistOf("built") # {}
    /\ pc = "done" => Cardinality(HistOf("clip")) = 2
    /\ \A b \in HistOf("built") :
          /\ hist[b].what = inp.boundary_type
          /\ hist[b].val = boundary
          /\ \A c \in HistOf("clip") : b < c /\ hist[c].mask = hist[b].val

BothClipsSameBoundaryWitness ==
    /\ pc = "done"
    /\ CityKind
    /\ outputs["roads"] # NoFrame
    /\ outputs["counties"] # NoFrame

\* C8 (as claimed): boundary construction, once run, has either failed with
\* the EmptyResultError on an empty filter result or returned one record.
BuildFailsEmptyOrReturnsOne ==
    BuildRan
        => \/ pc = "failed" /\ err = "EmptyResultError" /\ Matching = {}
           \/ pc # "failed" /\ Len(boundary.rows) = 1 /\ Matching # {}

\* C8 (amended): boundary construction fails before its filter is applied,
\* or fails with the EmptyResultError exactly when the filter matched no
\* region record, or returns one record, the dissolve of all N >= 1
\* matching records; it never returns no record or several.
BoundaryIsOneDissolvedRecord ==
    /\ boundary = NoFrame \/ Len(boundary.rows) = 1
    /\ BuildRan
          => /\ (pc = "failed" /\ HistOf("filter") = {}) => err # "EmptyResultError"
             /\ (pc = "failed" /\ HistOf("filter") # {})
                   => (err = "EmptyResultError" /\ Matching = {})
             /\ pc # "failed"
                   => /\ HistOf("filter") # {}
                      /\ Matching # {}
                      /\ Len(boundary.rows) = 1
                      /\ boundary.rows[1].geom = UNION {r.geom : r \in Matching}
                      /\ boundary.rows[1].geom # {}

\* the two rows of one place are dissolved into one record
TwoRowsDissolvedWitness ==
    /\ CityKind
    /\ pc = "clip_roads"
    /\ Cardinality(Matching) = 2
    /\ Len(boundary.rows) = 1
    /\ boundary.rows[1].geom = {1, 3}

---------------------------------------------------------------------------
(* Properties of clip_layer_to_boundary *)

\* the cells of the world a geometry of a frame in crs covers
World(crs, geom) == {c - CrsOffset(crs) : c \in geom}

Meets(i) ==
    World(call.base.crs, call.base.rows[i].geom)
    \cap World(call.boundary_gdf.crs, call.boundary_gdf.rows[1].geom) # {}

\* C9: the layer is never reprojected; a copy of the boundary is, exactly
\* when the coordinate systems differ, and the caller's boundary stays as it
\* was; what is written are the layer's records that meet the boundary, in
\* the layer's coordinate system.
ClipReprojectsOnlyBoundaryCopy ==
    (call.fn = "clip_layer_to_boundary" /\ ret # Pending)
        => /\ \A k \in 1..Len(ret.reprojected) : ret.reprojected[k] = "boundary copy"
           /\ call.base.crs = call.boundary_gdf.crs
                 => (ret.reprojected = <<>> /\ ret.mask = call.boundary_gdf)
           /\ (call.base.crs # call.boundary_gdf.crs /\ ret.err \notin {"load", "reproject"})
                 => /\ ret.reprojected = <<"boundary copy">>
                    /\ ret.mask.crs = call.base.crs
                    /\ World(ret.mask.crs, ret.mask.rows[1].geom)
                         = World(call.boundary_gdf.crs, call.boundary_gdf.rows[1].geom)
           /\ ret.caller = call.boundary_gdf
           /\ ret.err = "none"
                 => /\ ret.written.crs = call.base.crs
                    /\ Len(ret.written.rows) <= Len(call.base.rows)
                    /\ \A k \in 1..Len(ret.written.rows) :
                          \E i \in 1..Len(call.base.rows) :
                             /\ ret.written.rows[k].LINEARID = call.base.rows[i].LINEARID
                             /\ ret.written.rows[k].geom \subseteq call.base.rows[i].geom
                             /\ Meets(i)
                    /\ \A i \in 1..Len(call.base.rows) :
                          Meets(i) => \E k \in 1..Len(ret.written.rows) :
                             ret.written.rows[k].LINEARID = call.base.rows[i].LINEARID

ClipAcrossCrsWitness ==
    /\ call.fn = "clip_layer_to_boundary"
    /\ ret # Pending
    /\ call.base.crs # call.boundary_gdf.crs
    /\ ret.err = "none"
    /\ Len(call.base.rows) = 2
    /\ Len(ret.written.rows) = 1

\* C10 (as claimed): a file under downloads/ is a completely downloaded archive.
CacheHoldsOnlyCompleteArchives ==
    \A n \in Names : disk[n] # Absent => disk[n] = ArchiveChunks

====
